---- MODULE Spec2Model ----
(***************************************************************************)
(* A model of the volume raycasting renderer (src/render/renderer.cpp,     *)
(* src/render/render_config.h).                                            *)
(*                                                                         *)
(* float values are modelled as exact rationals <<numerator, denominator>> *)
(* in lowest terms with a positive denominator; glm::vec3 / glm::vec4 are  *)
(* tuples of rationals.  Rounding of IEEE floats is not modelled.          *)
(***************************************************************************)
EXTENDS Integers, Sequences, FiniteSets, TLC

VARIABLES
    \* the Renderer
    m_config,       \* the stored RenderConfig
    m_frameBuffer,  \* std::vector<glm::vec4>, element k of the vector at place k + 1
    camera,         \* the camera m_pCamera points to
    pc,             \* "rendering" inside render(), else the last operation done
    pending,        \* the pixels of the frame no thread has handled yet
    writes,         \* <<index, x, y>> for each fillColor of the current render()
    staleMissed,    \* when render() was called, a pixel its rays miss held a colour
    \* calls of the pure functions on their own
    ray, hit,       \* instersectRayVolumeBounds: its ray and what it returned
    tr,             \* a tracer's sampling loop
    tf2d,           \* a call of getTF2DOpacity
    bisect,         \* a call of bisectionAccuracy
    tfv             \* a call of getTFValue

rendererVars == <<m_config, m_frameBuffer, camera, pc, pending, writes, staleMissed>>
callVars == <<ray, hit, tr, tf2d, bisect, tfv>>
vars == <<rendererVars, callVars>>

(***************************************************************************)
(* float arithmetic                                                        *)
(***************************************************************************)
Abs(n) == IF n < 0 THEN -n ELSE n

RECURSIVE GCD(_, _)
GCD(a, b) == IF b = 0 THEN a ELSE GCD(b, a % b)

Rat(n, d) ==
    LET g == GCD(Abs(n), Abs(d))
        s == IF d < 0 THEN -1 ELSE 1
    IN  <<(s * n) \div g, (s * d) \div g>>

F(n) == <<n, 1>>

LCM(a, b) == (a \div GCD(a, b)) * b

RAdd(a, b) ==
    LET l == LCM(a[2], b[2])
    IN  Rat(a[1] * (l \div a[2]) + b[1] * (l \div b[2]), l)

RNeg(a) == <<-a[1], a[2]>>

RSub(a, b) == RAdd(a, RNeg(b))

RMul(a, b) ==
    LET x == Rat(a[1], b[2])
        y == Rat(b[1], a[2])
    IN  <<x[1] * y[1], x[2] * y[2]>>

RDiv(a, b) == RMul(a, Rat(b[2], b[1]))

RLe(a, b) ==
    LET l == LCM(a[2], b[2])
    IN  a[1] * (l \div a[2]) <= b[1] * (l \div b[2])

RLt(a, b) == ~RLe(b, a)

RMax(a, b) == IF RLt(a, b) THEN b ELSE a

RMin(a, b) == IF RLt(b, a) THEN b ELSE a

RAbs(a) == <<Abs(a[1]), a[2]>>

\* truncation of a float toward zero (static_cast to an integer type)
RTrunc(a) == IF a[1] >= 0 THEN a[1] \div a[2] ELSE -((-a[1]) \div a[2])

RFloor(a) == a[1] \div a[2]

(***************************************************************************)
(* glm vectors                                                             *)
(***************************************************************************)
Vec4(v, a) == <<v[1], v[2], v[3], a>>
Vec4Zero == <<F(0), F(0), F(0), F(0)>>
Rgb(c) == <<c[1], c[2], c[3]>>
VScale(s, v) == [i \in DOMAIN v |-> RMul(s, v[i])]
VAdd(u, v) == [i \in DOMAIN u |-> RAdd(u[i], v[i])]
VSub(u, v) == [i \in DOMAIN u |-> RSub(u[i], v[i])]
\* glm::mix(x, y, a) = x * (1 - a) + y * a
Mix(x, y, a) == VAdd(VScale(RSub(F(1), a), x), VScale(a, y))
FVec(v) == [i \in DOMAIN v |-> F(v[i])]

(***************************************************************************)
(* Bounds of the model                                                     *)
(***************************************************************************)
\* volume::Volume::dims(): the volume is VolDim x VolDim x VolDim voxels
VolDim == 3
\* the largest voxel value, volume::Volume::maximum()
VolumeMax == 2
\* the largest gradient magnitude, volume::GradientVolume::maxMagnitude()
GradMax == 2
\* renderResolution.x and .y range over 1..MaxRes
MaxRes == 2

(***************************************************************************)
(* External collaborators: volume, gradient volume, camera                 *)
(***************************************************************************)
Axes == 1..3

\* the voxel grid: value of voxel (x, y, z), 0 <= x, y, z < VolDim
Voxel(x, y, z) == (x + 2 * y + z) % (VolumeMax + 1)

\* the gradient magnitude stored at voxel (x, y, z)
GradVoxel(x, y, z) == (x + y + 2 * z) % (GradMax + 1)

\* the value a voxel field stores at voxel (x, y, z)
FieldAt(field, x, y, z) ==
    IF field = "volume" THEN Voxel(x, y, z) ELSE GradVoxel(x, y, z)

\* trilinear interpolation of a voxel field at a rational position; 0 outside
Trilinear(field, pos) ==
    IF \E i \in Axes : RLt(pos[i], F(0)) \/ RLt(F(VolDim - 1), pos[i])
    THEN F(0)
    ELSE LET lo == [i \in Axes |-> RFloor(pos[i])]
             hi == [i \in Axes |-> IF lo[i] + 1 > VolDim - 1 THEN lo[i] ELSE lo[i] + 1]
             fr == [i \in Axes |-> RSub(pos[i], F(lo[i]))]
             W(i, b) == IF b = 1 THEN fr[i] ELSE RSub(F(1), fr[i])
             C(i, b) == IF b = 1 THEN hi[i] ELSE lo[i]
             Term(a, b, c) ==
                 RMul(RMul(W(1, a), RMul(W(2, b), W(3, c))),
                      F(FieldAt(field, C(1, a), C(2, b), C(3, c))))
         IN  RAdd(RAdd(RAdd(Term(0, 0, 0), Term(0, 0, 1)),
                       RAdd(Term(0, 1, 0), Term(0, 1, 1))),
                  RAdd(RAdd(Term(1, 0, 0), Term(1, 0, 1)),
                       RAdd(Term(1, 1, 0), Term(1, 1, 1))))

\* m_pVolume->getSampleInterpolate(pos)
getSampleInterpolate(pos) == Trilinear("volume", pos)

\* m_pVolume->maximum()
maximum == F(VolumeMax)

\* m_pGradientVolume->getGradientInterpolate(pos).magnitude
getGradientMagnitude(pos) == Trilinear("gradient", pos)

\* m_pGradientVolume->minMagnitude() / maxMagnitude()
minMagnitude == F(0)
maxMagnitude == F(GradMax)

\* The cameras the user can move to.  A camera is its position, its forward
\* direction and the origin offset from one pixel to the next in x and in y.
Cameras ==
    { [position |-> <<-1, -1, -1>>, forward |-> <<1, 1, 1>>,
       right |-> <<1, 0, 0>>, up |-> <<0, 3, 0>>],
      [position |-> <<3, 0, 3>>, forward |-> <<-1, 1, -1>>,
       right |-> <<0, 1, 0>>, up |-> <<0, 0, 1>>],
      [position |-> <<-1, -1, -1>>, forward |-> <<-1, -1, -1>>,
       right |-> <<0, 4, 0>>, up |-> <<1, 0, 0>>] }

\* m_pCamera->generateRay(pixelPos * 2 - 1) for pixel (x, y)
generateRay(cam, x, y) ==
    [origin    |-> [i \in Axes |-> cam.position[i] + x * cam.right[i] + y * cam.up[i]],
     direction |-> cam.forward,
     tmin      |-> F(0),
     tmax      |-> F(0)]

(***************************************************************************)
(* Ray / box intersection                                                  *)
(***************************************************************************)
\* const Bounds bounds { vec3(0), vec3(dims() - 1) }: lowerUpper[0], lowerUpper[1]
VolumeBounds == <<[i \in Axes |-> 0], [i \in Axes |-> VolDim - 1]>>

\* bounds.lowerUpper[b] with b a bool
LowerUpper(bounds, b) == IF b THEN bounds[2] ELSE bounds[1]

\* a miss that moves the ray's tmin
Miss_Written(r) == [hit |-> FALSE, tmin |-> RAdd(r.tmin, F(1)), tmax |-> r.tmax]

\* return false: nothing has been written into the ray
Miss(r) == [hit |-> FALSE, tmin |-> r.tmin, tmax |-> r.tmax]

\* The slab test.  Returns [hit, tmin, tmax]: the ray's interval is written only
\* on success.  The direction has no zero component.
instersectRayVolumeBounds(r, bounds) ==
    LET invDir == [i \in Axes |-> Rat(1, r.direction[i])]
        sign   == [i \in Axes |-> RLt(invDir[i], F(0))]
        Near(i) == RMul(F(LowerUpper(bounds, sign[i])[i] - r.origin[i]), invDir[i])
        Far(i)  == RMul(F(LowerUpper(bounds, ~sign[i])[i] - r.origin[i]), invDir[i])
        tmin0 == Near(1)
        tmax0 == Far(1)
        tymin == Near(2)
        tymax == Far(2)
        tmin1 == RMax(tmin0, tymin)
        tmax1 == RMin(tmax0, tymax)
        tzmin == Near(3)
        tzmax == Far(3)
    IN  IF RLt(tymax, tmin0) \/ RLt(tmax0, tymin)
        THEN Miss(r)
        ELSE IF RLt(tzmax, tmin1) \/ RLt(tmax1, tzmin)
        THEN Miss(r)
        ELSE [hit |-> TRUE, tmin |-> RMax(tmin1, tzmin), tmax |-> RMin(tmax1, tzmax)]

(***************************************************************************)
(* RenderConfig                                                            *)
(***************************************************************************)
RenderModes ==
    {"RenderSlicer", "RenderMIP", "RenderIso", "RenderComposite",
     "RenderTF2D", "RenderMIDA", "RenderCombined"}

\* std::array<glm::vec4, 256> tfColorMap
TFSize == 256

(***************************************************************************)
(* Samples along a ray                                                     *)
(*                                                                         *)
(* A tracer reads the volume, the gradient volume and the camera only at   *)
(* its sample positions.  A sample is what it reads there:                 *)
(*   val         getSampleInterpolate(samplePos)                           *)
(*   val2        getSampleInterpolate(samplePos + increment)               *)
(*   magnitude   getGradientInterpolate(samplePos).magnitude               *)
(*   absCosTheta |dot(normalize(gradient.dir), L)|, 0 when it is NaN       *)
(*   specPow     pow(|dot(normalize(reflect(L, gradient.dir)), V)|, alpha) *)
(***************************************************************************)
static_sampleStep == F(1)

\* ray.origin + t * ray.direction
RayAt(r, t) == [i \in Axes |-> RAdd(F(r.origin[i]), RMul(t, F(r.direction[i])))]

\* the two normalised dot products of the shading at a position: they are
\* irrational in general; here a fixed pattern over the positions
ShadeTermsAt(pos) ==
    LET k == RFloor(RAdd(pos[1], RAdd(pos[2], pos[3])))
    IN  [absCosTheta |-> IF k % 2 = 0 THEN F(1) ELSE F(0),
         specPow     |-> IF k % 3 = 0 THEN F(1) ELSE F(0)]

SampleAt(r, t) ==
    LET pos == RayAt(r, t)
        sh  == ShadeTermsAt(pos)
    IN  [val         |-> getSampleInterpolate(pos),
         val2        |-> getSampleInterpolate(RayAt(r, RAdd(t, static_sampleStep))),
         magnitude   |-> getGradientMagnitude(pos),
         absCosTheta |-> sh.absCosTheta,
         specPow     |-> sh.specPow]

\* for (float t = ray.tmin; t <= ray.tmax; t += sampleStep, samplePos += increment)
RECURSIVE RaySamplesFrom(_, _)
RaySamplesFrom(r, t) ==
    IF RLe(t, r.tmax)
    THEN <<SampleAt(r, t)>> \o RaySamplesFrom(r, RAdd(t, static_sampleStep))
    ELSE <<>>

RaySamples(r) == RaySamplesFrom(r, r.tmin)

(***************************************************************************)
(* Transfer functions and shading                                          *)
(***************************************************************************)
\* static_cast<size_t>(f) for f > -1: truncation toward zero
SizeT(f) == RTrunc(f)

\* what static_cast<size_t>(f) can yield.  For f <= -1 the truncated value is
\* not representable and the conversion is undefined: builds that convert
\* through a signed 64-bit integer yield a value of 2^63 or more, builds with a
\* saturating conversion yield 0.  The large value is only ever compared with
\* tfColorMap.size() - 1, so TFSize stands for it.
SizeTOutcomes(f) ==
    IF RLt(F(-1), f) THEN {SizeT(f)} ELSE {0, TFSize}

\* the index getTFValue reads for a val at or above the start of the domain
getTFIndex(cfg, val) ==
    LET range01 == RDiv(RSub(val, cfg.tfColorMapIndexStart), cfg.tfColorMapIndexRange)
        i == SizeT(RMul(range01, F(TFSize)))
    IN  IF TFSize - 1 < i THEN TFSize - 1 ELSE i

\* m_config.tfColorMap[i].  The 256 entries are kept as runs <<first, entry>>,
\* sorted by first index and starting at index 0: entries first .. (next run's
\* first - 1) all equal entry.
TFEntry(map, i) ==
    LET k == CHOOSE k \in DOMAIN map :
                 /\ map[k][1] <= i
                 /\ \A j \in DOMAIN map : map[j][1] <= i => j <= k
    IN  map[k][2]

getTFValue(cfg, val) == TFEntry(cfg.tfColorMap, getTFIndex(cfg, val))

getTF2DOpacity(cfg, intensity, gradientMagnitude) ==
    LET apexIntensity == cfg.TF2DIntensity
        apexGradientMagnitude == minMagnitude
        baseIntensity1 == RSub(apexIntensity, cfg.TF2DRadius)
        baseIntensity2 == RAdd(apexIntensity, cfg.TF2DRadius)
        baseGradientMagnitude == maxMagnitude
        m1 == RDiv(RSub(apexGradientMagnitude, baseGradientMagnitude),
                   RSub(apexIntensity, baseIntensity1))
        q1 == RSub(apexGradientMagnitude, RMul(m1, apexIntensity))
        m2 == RDiv(RSub(apexGradientMagnitude, baseGradientMagnitude),
                   RSub(apexIntensity, baseIntensity2))
        q2 == RSub(apexGradientMagnitude, RMul(m2, apexIntensity))
        projection ==
            IF RLt(intensity, apexIntensity)
            THEN RDiv(RSub(gradientMagnitude, q1), m1)
            ELSE RDiv(RSub(gradientMagnitude, q2), m2)
        distancefromApex == RAbs(RSub(projection, apexIntensity))
    IN  IF /\ RLt(RAdd(RMul(m1, intensity), q1), gradientMagnitude)
           /\ RLt(RAdd(RMul(m2, intensity), q2), gradientMagnitude)
           /\ RLt(gradientMagnitude, baseGradientMagnitude)
           /\ RLt(baseIntensity1, intensity)
           /\ RLt(intensity, baseIntensity2)
        THEN RSub(F(1), RDiv(RAbs(RSub(intensity, apexIntensity)), distancefromApex))
        ELSE F(0)

\* ambient + diffuse + specular, given the two dot-product terms of the sample
computePhongShading(color, s, cfg) ==
    LET ambient  == VScale(cfg.ka, color)
        diffuse  == VScale(RMul(cfg.kd, s.absCosTheta), color)
        specular == VScale(RMul(cfg.ks, s.specPow), <<F(1), F(1), F(1)>>)
    IN  VAdd(VAdd(ambient, diffuse), specular)

\* glm::smoothstep(edge0, edge1, x)
smoothstep(edge0, edge1, x) ==
    LET u == RDiv(RSub(x, edge0), RSub(edge1, edge0))
        t == RMin(RMax(u, F(0)), F(1))
    IN  RMul(RMul(t, t), RSub(F(3), RMul(F(2), t)))

\* the colour of a sample in the MIDA and Combined tracers
FinalColor(cfg, s, tfColor) ==
    IF cfg.volumeShading
    THEN LET phongShading == computePhongShading(tfColor, s, cfg)
         IN  IF cfg.smoothstep
             THEN LET weight == smoothstep(RMul(cfg.gl, maxMagnitude),
                                           RMul(cfg.gh, maxMagnitude), s.magnitude)
                  IN  Mix(tfColor, phongShading, weight)
             ELSE phongShading
    ELSE tfColor

(***************************************************************************)
(* The tracers.  Each sampling loop is a step function over a loop state   *)
(*   accumulatedOpacity, accumulatedColor, maxVal: the loop's locals       *)
(*   res, found: the isosurface tracer's locals                            *)
(*   brk: the loop was left by break / return                              *)
(***************************************************************************)
LoopInit ==
    [accumulatedOpacity |-> F(0),
     accumulatedColor   |-> Vec4Zero,
     maxVal             |-> F(0),
     res                |-> F(0),
     found              |-> Vec4Zero,
     brk                |-> FALSE]

\* traceRayMIP, loop body
MIPStep(cfg, st, s) ==
    [st EXCEPT !.maxVal = RMax(s.val, st.maxVal)]

\* a fade factor that grows with the difference
MIDABeta_Plus(delta) == RAdd(F(1), delta)

\* the per-sample fade factor of traceRayMIDA
MIDABeta(delta) == RSub(F(1), delta)

\* traceRayMIDA, loop body
MIDAStep(cfg, st, s) ==
    LET val == s.val
        normalizedVal == RDiv(val, maximum)
        normalizedMaxVal == RDiv(st.maxVal, maximum)
        tfValue == getTFValue(cfg, val)
        tfColor == Rgb(tfValue)
        tfOpacity == tfValue[4]
        finalColor == FinalColor(cfg, s, tfColor)
        delta == IF RLt(st.maxVal, val) THEN RSub(normalizedVal, normalizedMaxVal) ELSE F(0)
        beta == MIDABeta(delta)
        rest == RSub(F(1), RMul(beta, st.accumulatedOpacity))
    IN  [st EXCEPT
           !.accumulatedColor =
               VAdd(VScale(beta, st.accumulatedColor),
                    VScale(RMul(rest, tfOpacity), Vec4(finalColor, F(1)))),
           !.accumulatedOpacity =
               RAdd(RMul(beta, st.accumulatedOpacity), RMul(rest, tfOpacity)),
           !.maxVal = RMax(val, st.maxVal)]

\* a fade factor that scales the difference by gamma instead of 1 + gamma
CombinedBeta_Gamma(gamma, delta) ==
    IF RLe(gamma, F(0))
    THEN RSub(F(1), RMul(delta, gamma))
    ELSE RSub(F(1), delta)

\* a fade factor that ignores gamma: MIDA's own
CombinedBeta_MIDA(gamma, delta) == RSub(F(1), delta)

\* the per-sample fade factor of traceRayCombined
CombinedBeta(gamma, delta) ==
    IF RLe(gamma, F(0))
    THEN RSub(F(1), RMul(delta, RAdd(F(1), gamma)))
    ELSE RSub(F(1), delta)

\* traceRayCombined, loop body
CombinedStep(cfg, st, s) ==
    LET gamma == cfg.gamma
        val == s.val
        normalizedVal == RDiv(val, maximum)
        normalizedMaxVal == RDiv(st.maxVal, maximum)
        tfValue == getTFValue(cfg, val)
        tfColor == Rgb(tfValue)
        tfOpacity == tfValue[4]
        finalColor == FinalColor(cfg, s, tfColor)
        delta == IF RLt(st.maxVal, val) THEN RSub(normalizedVal, normalizedMaxVal) ELSE F(0)
        beta == CombinedBeta(gamma, delta)
        rest == RSub(F(1), RMul(beta, st.accumulatedOpacity))
    IN  [st EXCEPT
           !.accumulatedColor =
               VAdd(VScale(beta, st.accumulatedColor),
                    VScale(RMul(rest, tfOpacity), Vec4(finalColor, F(1)))),
           !.accumulatedOpacity =
               RAdd(RMul(beta, st.accumulatedOpacity), RMul(rest, tfOpacity)),
           !.maxVal = RMax(val, st.maxVal)]

\* the isosurface colour of traceRayISO
IsoColor == <<Rat(8, 10), Rat(8, 10), F(0)>>

\* an isosurface test that also accepts a value equal to the iso value
IsoExceeds_OrEqual(val, isoValue) == RLe(isoValue, val)

\* val > m_config.isoValue
IsoExceeds(val, isoValue) == RLt(isoValue, val)

\* traceRayISO, loop body
ISOStep(cfg, st, s) ==
    IF ~cfg.volumeShading
    THEN IF IsoExceeds(s.val, cfg.isoValue)
         THEN [st EXCEPT !.res = F(1), !.brk = TRUE]
         ELSE st
    ELSE IF IsoExceeds(s.val, cfg.isoValue) \/ IsoExceeds(s.val2, cfg.isoValue)
         THEN [st EXCEPT !.found = Vec4(computePhongShading(IsoColor, s, cfg), F(1)),
                         !.brk = TRUE]
         ELSE st

\* a traceRayComposite without the early exit
CompositeBreak_Never(accumulatedOpacity) == FALSE

\* the break test of traceRayComposite
CompositeBreak(accumulatedOpacity) == RLe(F(1), accumulatedOpacity)

\* a compositing weight that ignores what is already accumulated
CompositeRemaining_One(accumulatedOpacity) == F(1)

\* (1.0f - accumulatedOpacity), the weight of a new sample in traceRayComposite
CompositeRemaining(accumulatedOpacity) == RSub(F(1), accumulatedOpacity)

\* traceRayComposite, loop body
CompositeStep(cfg, st, s) ==
    LET tfValue == getTFValue(cfg, s.val)
        tfColor == IF cfg.volumeShading
                   THEN computePhongShading(Rgb(tfValue), s, cfg)
                   ELSE Rgb(tfValue)
        tfOpacity == tfValue[4]
        rest == CompositeRemaining(st.accumulatedOpacity)
        acc == RAdd(st.accumulatedOpacity, RMul(rest, tfOpacity))
    IN  [st EXCEPT
           !.accumulatedColor =
               VAdd(st.accumulatedColor, VScale(RMul(rest, tfOpacity), Vec4(tfColor, F(1)))),
           !.accumulatedOpacity = acc,
           !.brk = CompositeBreak(acc)]

\* traceRayTF2D, loop body
TF2DStep(cfg, st, s) ==
    LET tfOpacity == getTF2DOpacity(cfg, s.val, s.magnitude)
        acc == RAdd(st.accumulatedOpacity,
                    RMul(RMul(RSub(F(1), st.accumulatedOpacity), tfOpacity), cfg.TF2DColor[4]))
    IN  IF RLe(F(1), acc)
        THEN [st EXCEPT !.accumulatedOpacity = F(1), !.brk = TRUE]
        ELSE [st EXCEPT !.accumulatedOpacity = acc]

\* one iteration of the sampling loop of the tracer of a mode
SampleStep(mode, cfg, st, s) ==
    CASE mode = "RenderMIP"       -> MIPStep(cfg, st, s)
      [] mode = "RenderMIDA"      -> MIDAStep(cfg, st, s)
      [] mode = "RenderCombined"  -> CombinedStep(cfg, st, s)
      [] mode = "RenderIso"       -> ISOStep(cfg, st, s)
      [] mode = "RenderComposite" -> CompositeStep(cfg, st, s)
      [] mode = "RenderTF2D"      -> TF2DStep(cfg, st, s)

\* glm::vec4(glm::vec3(maxVal) / maximum, 1.0f)
MaxColor(st) ==
    LET g == RDiv(st.maxVal, maximum) IN <<g, g, g, F(1)>>

\* the value a tracer returns once its loop has ended in state st
TraceResult(mode, cfg, st) ==
    CASE mode = "RenderMIP"       -> MaxColor(st)
      [] mode = "RenderMIDA"      -> st.accumulatedColor
      [] mode = "RenderCombined"  ->
            IF RLe(cfg.gamma, F(0))
            THEN st.accumulatedColor
            ELSE Mix(st.accumulatedColor, MaxColor(st), cfg.gamma)
      [] mode = "RenderIso"       ->
            IF ~cfg.volumeShading
            THEN Vec4(VScale(st.res, IsoColor), F(1))
            ELSE IF st.brk THEN st.found ELSE <<F(0), F(0), F(0), F(1)>>
      [] mode = "RenderComposite" -> st.accumulatedColor
      [] mode = "RenderTF2D"      -> VScale(st.accumulatedOpacity, cfg.TF2DColor)

\* the sampling loop from sample i on
RECURSIVE RunLoop(_, _, _, _, _)
RunLoop(mode, cfg, st, samples, i) ==
    IF i > Len(samples) \/ st.brk
    THEN st
    ELSE RunLoop(mode, cfg, SampleStep(mode, cfg, st, samples[i]), samples, i + 1)

\* traceRayMIP / MIDA / Combined / ISO / Composite / TF2D on the samples of a ray
traceRay(mode, cfg, samples) ==
    TraceResult(mode, cfg, RunLoop(mode, cfg, LoopInit, samples, 1))

\* traceRaySlice: one sample on the plane through the volume centre
traceRaySlice(r, cam) ==
    LET volumeCenter == [i \in Axes |-> Rat(VolDim, 2)]
        \* planeNormal = -normalize(forward): the normalisation cancels in t
        n == [i \in Axes |-> F(-cam.forward[i])]
        Dot(u, v) == RAdd(RMul(u[1], v[1]), RAdd(RMul(u[2], v[2]), RMul(u[3], v[3])))
        t == RDiv(Dot(VSub(volumeCenter, FVec(r.origin)), n), Dot(FVec(r.direction), n))
        val == getSampleInterpolate(RayAt(r, t))
        g == RMax(RDiv(val, maximum), F(0))
    IN  <<g, g, g, F(1)>>

(***************************************************************************)
(* The configurations the user can set                                     *)
(***************************************************************************)
\* a lookup table of three bands: transparent, half opaque, opaque
TFBands ==
    << <<0, Vec4Zero>>,
       <<64, <<F(1), Rat(1, 2), F(0), Rat(1, 2)>> >>,
       <<192, <<Rat(1, 2), F(1), F(1), F(1)>> >> >>

DefaultConfig ==
    [renderMode           |-> "RenderSlicer",
     renderResolution     |-> <<1, 1>>,
     volumeShading        |-> FALSE,
     smoothstep           |-> FALSE,
     isoValue             |-> F(1),
     gamma                |-> F(0),
     ka                   |-> Rat(1, 4),
     kd                   |-> Rat(1, 2),
     ks                   |-> Rat(1, 4),
     gl                   |-> Rat(1, 4),
     gh                   |-> Rat(3, 4),
     tfColorMap           |-> TFBands,
     tfColorMapIndexStart |-> F(0),
     tfColorMapIndexRange |-> F(VolumeMax),
     TF2DIntensity        |-> F(1),
     TF2DRadius           |-> F(1),
     TF2DColor            |-> <<F(1), F(1), Rat(1, 2), Rat(1, 2)>>]

Resolutions == (1..MaxRes) \X (1..MaxRes)

\* the configuration the user sets by choosing a mode and a resolution
UserConfig(m, r) == [DefaultConfig EXCEPT !.renderMode = m, !.renderResolution = r]

RendererConfigs == { UserConfig(m, r) : m \in RenderModes, r \in Resolutions }

(***************************************************************************)
(* Renderer                                                                *)
(***************************************************************************)
\* a resizeImage that sizes the buffer by the width alone
resizeImage_Square(fb, resolution) ==
    LET n == resolution[1] * resolution[1]
    IN  IF n <= Len(fb)
        THEN SubSeq(fb, 1, n)
        ELSE fb \o [i \in 1..(n - Len(fb)) |-> Vec4Zero]

\* m_frameBuffer.resize(size_t(resolution.x) * size_t(resolution.y), vec4(0))
resizeImage(fb, resolution) ==
    LET n == resolution[1] * resolution[2]
    IN  IF n <= Len(fb)
        THEN SubSeq(fb, 1, n)
        ELSE fb \o [i \in 1..(n - Len(fb)) |-> Vec4Zero]

\* a resetImage that leaves the last frame in place
resetImage_Keep(fb) == fb

\* std::fill(begin(m_frameBuffer), end(m_frameBuffer), vec4(0))
resetImage(fb) == [i \in 1..Len(fb) |-> Vec4Zero]

\* a fillColor that strides by the frame's height
fillIndex_Height(cfg, x, y) == cfg.renderResolution[2] * y + x

\* the index fillColor writes for pixel (x, y)
fillIndex(cfg, x, y) == cfg.renderResolution[1] * y + x

\* m_frameBuffer[index] = color; element index of the vector is place index + 1
fillColor(fb, cfg, x, y, color) ==
    LET index == fillIndex(cfg, x, y)
    IN  IF index + 1 \in DOMAIN fb THEN [fb EXCEPT ![index + 1] = color] ELSE fb

\* the pixels of a frame
Pixels(cfg) == (0..(cfg.renderResolution[1] - 1)) \X (0..(cfg.renderResolution[2] - 1))

\* the body of render()'s pixel loop up to fillColor: whether the ray of pixel
\* (x, y) hits the volume, and the colour its tracer returns
PixelColor(cfg, cam, x, y) ==
    LET r0 == generateRay(cam, x, y)
        is == instersectRayVolumeBounds(r0, VolumeBounds)
        r  == [r0 EXCEPT !.tmin = is.tmin, !.tmax = is.tmax]
    IN  IF ~is.hit
        THEN [hit |-> FALSE, color |-> Vec4Zero]
        ELSE [hit |-> TRUE,
              color |-> IF cfg.renderMode = "RenderSlicer"
                        THEN traceRaySlice(r, cam)
                        ELSE traceRay(cfg.renderMode, cfg, RaySamples(r))]

\* PixelColor of every configuration, camera and pixel, computed once
PixelTable ==
    [k \in UNION { {cfg} \X Cameras \X Pixels(cfg) : cfg \in RendererConfigs } |->
        PixelColor(k[1], k[2], k[3][1], k[3][2])] @@ <<>>

\* one iteration of render()'s pixel loop on frame buffer fb
RenderOnePixel(fb, cfg, cam, x, y) ==
    LET p == PixelTable[<<cfg, cam, <<x, y>>>>]
    IN  IF p.hit THEN fillColor(fb, cfg, x, y, p.color) ELSE fb

\* the single-threaded loops: for x { for y { ... } } from pixel (x, y) on
RECURSIVE SequentialLoop(_, _, _, _, _)
SequentialLoop(fb, cfg, cam, x, y) ==
    IF x >= cfg.renderResolution[1] THEN fb
    ELSE IF y >= cfg.renderResolution[2] THEN SequentialLoop(fb, cfg, cam, x + 1, 0)
    ELSE SequentialLoop(RenderOnePixel(fb, cfg, cam, x, y), cfg, cam, x, y + 1)

\* render() with PARALLELISM == 0
SequentialRender(fb, cfg, cam) == SequentialLoop(resetImage(fb), cfg, cam, 0, 0)

NoRay == [origin |-> <<0, 0, 0>>, direction |-> <<1, 1, 1>>, tmin |-> F(0), tmax |-> F(0)]
NoTrace == [mode |-> "none"]
NoTF2D == [call |-> "none"]
NoBisect == [call |-> "none"]
NoTFValue == [call |-> "none"]

OthersIdle ==
    /\ ray = NoRay
    /\ hit = "none"
    /\ tr = NoTrace
    /\ tf2d = NoTF2D
    /\ bisect = NoBisect
    /\ tfv = NoTFValue

\* Renderer::Renderer: stores the config and sizes the (empty) frame buffer
Init ==
    /\ \E m \in RenderModes, r \in Resolutions : m_config = UserConfig(m, r)
    /\ m_frameBuffer = resizeImage(<<>>, m_config.renderResolution)
    /\ camera \in Cameras
    /\ pc = "constructed"
    /\ pending = {}
    /\ writes = {}
    /\ staleMissed = FALSE
    /\ OthersIdle

Idle == pc # "rendering"

\* Renderer::setConfig
setConfig(config) ==
    /\ Idle
    /\ IF config.renderResolution # m_config.renderResolution
       THEN /\ m_frameBuffer' = resizeImage(m_frameBuffer, config.renderResolution)
            /\ pc' = "resized"
       ELSE /\ m_frameBuffer' = m_frameBuffer
            /\ pc' = "configured"
    /\ m_config' = config
    /\ writes' = {}
    /\ staleMissed' = FALSE
    /\ UNCHANGED <<camera, pending, callVars>>

\* the user moves the camera between two frames
MoveCamera(cam) ==
    /\ Idle
    /\ cam # camera
    /\ camera' = cam
    /\ pc' = "moved"
    /\ writes' = {}
    /\ staleMissed' = FALSE
    /\ UNCHANGED <<m_config, m_frameBuffer, pending, callVars>>

\* render(): resetImage(), then the pixels are handed to the threads
RenderBegin ==
    /\ Idle
    /\ m_frameBuffer' = resetImage(m_frameBuffer)
    /\ pending' = Pixels(m_config)
    /\ writes' = {}
    /\ staleMissed' =
          \E p \in Pixels(m_config) :
              /\ ~PixelTable[<<m_config, camera, p>>].hit
              /\ m_frameBuffer[m_config.renderResolution[1] * p[2] + p[1] + 1] # Vec4Zero
    /\ pc' = "rendering"
    /\ UNCHANGED <<m_config, camera, callVars>>

\* some thread runs the loop body for one pixel of its tile
RenderPixel(x, y) ==
    /\ pc = "rendering"
    /\ <<x, y>> \in pending
    /\ \E p \in {PixelTable[<<m_config, camera, <<x, y>>>>]} :
          IF p.hit
          THEN /\ m_frameBuffer' = fillColor(m_frameBuffer, m_config, x, y, p.color)
               /\ writes' = writes \cup {<<fillIndex(m_config, x, y), x, y>>}
          ELSE UNCHANGED <<m_frameBuffer, writes>>
    /\ pending' = pending \ {<<x, y>>}
    /\ UNCHANGED <<m_config, camera, pc, staleMissed, callVars>>

\* all tiles are finished: parallel_for joins and render() returns
RenderEnd ==
    /\ pc = "rendering"
    /\ pending = {}
    /\ pc' = "returned"
    /\ UNCHANGED <<m_config, m_frameBuffer, camera, pending, writes, staleMissed, callVars>>

Next ==
    \/ \E m \in RenderModes, r \in Resolutions : setConfig(UserConfig(m, r))
    \/ \E cam \in Cameras : MoveCamera(cam)
    \/ RenderBegin
    \/ \E x \in 0..(MaxRes - 1), y \in 0..(MaxRes - 1) : RenderPixel(x, y)
    \/ RenderEnd

Spec == Init /\ [][Next]_vars

(***************************************************************************)
(* Claims about the Renderer, checked under Spec                           *)
(***************************************************************************)
\* the place in m_frameBuffer of pixel (x, y) of a row-major frame
RowMajor(cfg, x, y) == cfg.renderResolution[1] * y + x + 1

\* whether the ray of pixel (x, y) misses the volume bounding box
Missed(cfg, cam, x, y) == ~PixelTable[<<cfg, cam, <<x, y>>>>].hit

\* C1: after construction and after any sequence of setConfig and render, the
\* frame buffer's length is renderResolution.x * renderResolution.y of the
\* stored config.
C1_FrameBufferLength ==
    Len(m_frameBuffer) = m_config.renderResolution[1] * m_config.renderResolution[2]

\* setConfig has just resized a frame buffer that earlier renders had filled
C1_Witness ==
    /\ pc = "resized"
    /\ Len(m_frameBuffer) = MaxRes * MaxRes
    /\ \E i \in DOMAIN m_frameBuffer : m_frameBuffer[i] # Vec4Zero

C3_DisjointWrites ==
    /\ \A w \in writes :
          /\ <<w[2], w[3]>> \in Pixels(m_config)
          /\ w[1] = m_config.renderResolution[1] * w[3] + w[2]
          /\ w[1] >= 0 /\ w[1] < Len(m_frameBuffer)
          /\ \A v \in writes : v[1] = w[1] => v = w
    /\ pc = "returned" =>
          m_frameBuffer = SequentialRender(m_frameBuffer, m_config, camera)

\* a render() in which several pixels were written has returned
C3_Witness ==
    /\ pc = "returned"
    /\ Cardinality(writes) >= 3
    /\ Cardinality({m_frameBuffer[i] : i \in DOMAIN m_frameBuffer}) >= 3

\* C15: after a setConfig that changed the resolution, every element of the
\* frame buffer is vec4(0) until the next render() writes it.
C15_ResizedFrameBufferBlack ==
    pc = "resized" => \A i \in DOMAIN m_frameBuffer : m_frameBuffer[i] = Vec4Zero

(***************************************************************************)
(* instersectRayVolumeBounds on its own: SpecIntersect                     *)
(***************************************************************************)
\* ray origins lie up to MaxOffset outside the volume on each axis
MaxOffset == 2
\* the components of a ray direction are in -MaxDir..MaxDir, without 0
MaxDir == 2

Origins == [Axes -> (-MaxOffset)..(VolDim - 1 + MaxOffset)]
Directions == [Axes -> ((-MaxDir)..MaxDir) \ {0}]

\* the Renderer is not running
RendererIdle ==
    /\ m_config = "none"
    /\ m_frameBuffer = <<>>
    /\ camera = "none"
    /\ pc = "none"
    /\ pending = {}
    /\ writes = {}
    /\ staleMissed = FALSE

\* the <<tmin, tmax>> a ray may carry into the call
StartIntervals == { <<F(0), F(0)>>, <<F(1), F(-1)>> }

InitIntersect ==
    /\ RendererIdle
    /\ ray \in { [origin |-> <<o[1], o[2], o[3]>>, direction |-> <<d[1], d[2], d[3]>>,
                  tmin |-> iv[1], tmax |-> iv[2]]
                    : o \in Origins, d \in Directions, iv \in StartIntervals }
    /\ hit = "none"
    /\ tr = NoTrace
    /\ tf2d = NoTF2D
    /\ bisect = NoBisect
    /\ tfv = NoTFValue

\* the call instersectRayVolumeBounds(ray, bounds)
Intersect ==
    /\ hit = "none"
    /\ LET is == instersectRayVolumeBounds(ray, VolumeBounds)
       IN  /\ ray' = [ray EXCEPT !.tmin = is.tmin, !.tmax = is.tmax]
           /\ hit' = IF is.hit THEN "true" ELSE "false"
    /\ UNCHANGED <<rendererVars, tr, tf2d, bisect, tfv>>

NextIntersect == Intersect

SpecIntersect == InitIntersect /\ [][NextIntersect]_vars

\* the box is behind the ray on axis i: the origin is outside the box's slab and
\* the direction leads further away from it
BehindOnAxis(r, i) ==
    \/ r.origin[i] < VolumeBounds[1][i] /\ r.direction[i] < 0
    \/ r.origin[i] > VolumeBounds[2][i] /\ r.direction[i] > 0

\* C4: a ray whose origin lies outside the box along every axis and whose
\* direction points away from the box on every axis is reported as a miss.
C4_BoxBehindRayMisses ==
    (hit # "none" /\ \A i \in Axes : BehindOnAxis(ray, i)) => hit = "false"

\* C12: whenever instersectRayVolumeBounds returns true the interval it wrote
\* into the ray has tmin <= tmax, and when it returns false the ray's tmin and
\* tmax are what they were before the call.
C12_IntervalOrderedOrUntouched ==
    /\ [](hit = "true" => RLe(ray.tmin, ray.tmax))
    /\ [][hit' = "false" => (ray'.tmin = ray.tmin /\ ray'.tmax = ray.tmax)]_vars

\* an oblique ray from outside the box was reported as hitting, with a
\* non-empty interval in front of its origin
C12_Witness ==
    /\ hit = "true"
    /\ ray.direction[1] # ray.direction[2]
    /\ RLt(F(0), ray.tmin)
    /\ RLt(ray.tmin, ray.tmax)
    /\ ray.origin[1] < 0

(***************************************************************************)
(* getTF2DOpacity on its own: SpecTF2D                                     *)
(***************************************************************************)
\* intensities and gradient magnitudes are multiples of 1 / GridDen
GridDen == 2

GridValues(max) == { Rat(k, GridDen) : k \in 0..(max * GridDen) }

InitTF2D ==
    /\ RendererIdle
    /\ ray = NoRay
    /\ hit = "none"
    /\ tr = NoTrace
    /\ bisect = NoBisect
    /\ tfv = NoTFValue
    /\ tf2d \in { [call |-> "pending",
                   cfg |-> [TF2DIntensity |-> a, TF2DRadius |-> r],
                   intensity |-> i, gradientMagnitude |-> g, result |-> F(0)] :
                  a \in {F(1), Rat(3, 2)}, r \in {Rat(1, 2), F(1)},
                  i \in GridValues(VolumeMax), g \in GridValues(GradMax) }

\* the call getTF2DOpacity(intensity, gradientMagnitude)
CallTF2DOpacity ==
    /\ tf2d.call = "pending"
    /\ tf2d' = [tf2d EXCEPT
                  !.call = "done",
                  !.result = getTF2DOpacity(tf2d.cfg, tf2d.intensity, tf2d.gradientMagnitude)]
    /\ UNCHANGED <<rendererVars, ray, hit, tr, bisect, tfv>>

NextTF2D == CallTF2DOpacity

SpecTF2D == InitTF2D /\ [][NextTF2D]_vars

\* C10: a sample exactly at the apex (intensity = TF2DIntensity, gradient
\* magnitude = the field's minimum magnitude) gets opacity 1.
C10_ApexOpacityOne ==
    ( /\ tf2d.call = "done"
      /\ tf2d.intensity = tf2d.cfg.TF2DIntensity
      /\ tf2d.gradientMagnitude = minMagnitude
      /\ RLt(F(0), tf2d.cfg.TF2DRadius)
      /\ RLt(minMagnitude, maxMagnitude) )
    => tf2d.result = F(1)

\* on the vertical line through the apex, strictly inside the triangle, the
\* opacity is 1
TF2D_CentreLineOpacityOne ==
    ( /\ tf2d.call = "done"
      /\ tf2d.intensity = tf2d.cfg.TF2DIntensity
      /\ RLt(minMagnitude, tf2d.gradientMagnitude)
      /\ RLt(tf2d.gradientMagnitude, maxMagnitude) )
    => tf2d.result = F(1)

(***************************************************************************)
(* The tracers on their own: SpecTrace                                     *)
(*                                                                         *)
(* A ray is given by what the tracer reads at its samples; the values are  *)
(* free, so every volume, gradient volume and camera is covered up to      *)
(* MaxSamples samples with values on the integer grid.                     *)
(***************************************************************************)
\* the most samples between ray.tmin and ray.tmax
MaxSamples == 3

TraceModes == RenderModes \ {"RenderSlicer"}

\* the lookup-table index of the volume value 1
BinOfOne == getTFIndex(DefaultConfig, F(1))

\* a lookup table with one non-zero entry, at index k
TFSingle(k, entry) == << <<0, Vec4Zero>>, <<k, entry>>, <<k + 1, Vec4Zero>> >>

TraceTFs ==
    { TFBands,
      TFSingle(BinOfOne, <<F(1), Rat(1, 2), F(0), Rat(1, 2)>>),
      TFSingle(BinOfOne, <<Rat(1, 2), F(1), F(1), F(1)>>) }

Gammas == {F(-1), Rat(-1, 2), F(0), Rat(1, 2), F(1)}

\* <<volumeShading, smoothstep>>
ShadingChoices == {<<FALSE, FALSE>>, <<TRUE, FALSE>>, <<TRUE, TRUE>>}

TraceConfigs(mode) ==
    LET base == [DefaultConfig EXCEPT !.renderMode = mode]
    IN  CASE mode = "RenderMIP" -> {base}
          [] mode = "RenderMIDA" ->
                { [base EXCEPT !.tfColorMap = tf, !.volumeShading = sh[1], !.smoothstep = sh[2]]
                    : tf \in TraceTFs, sh \in ShadingChoices }
          [] mode = "RenderCombined" ->
                { [base EXCEPT !.tfColorMap = tf, !.volumeShading = sh[1], !.smoothstep = sh[2],
                               !.gamma = g]
                    : tf \in TraceTFs, sh \in ShadingChoices, g \in Gammas }
          [] mode = "RenderComposite" ->
                { [base EXCEPT !.tfColorMap = tf, !.volumeShading = sh]
                    : tf \in TraceTFs, sh \in BOOLEAN }
          [] mode = "RenderIso" ->
                { [base EXCEPT !.isoValue = iso, !.volumeShading = sh]
                    : iso \in {F(0), F(1)}, sh \in BOOLEAN }
          [] mode = "RenderTF2D" ->
                { [base EXCEPT !.TF2DRadius = r, !.TF2DColor = c]
                    : r \in {F(1), F(2)},
                      c \in { <<F(1), F(1), Rat(1, 2), Rat(1, 2)>>,
                              <<F(1), Rat(1, 2), F(0), F(1)>> } }

\* the samples of a ray whose volume values are vals; the shading terms follow
\* pattern p and the gradient magnitudes pattern q
MakeSamples(vals, p, q) ==
    [i \in 1..Len(vals) |->
        [val         |-> F(vals[i]),
         val2        |-> IF i < Len(vals) THEN F(vals[i + 1]) ELSE F(0),
         magnitude   |-> F((i + q) % (GradMax + 1)),
         absCosTheta |-> F((i + p) % 2),
         specPow     |-> F((i + p + 1) % 2)]]

ValSeqs == UNION { [1..n -> 0..VolumeMax] : n \in 0..MaxSamples }

\* the rays that differ for a tracer under cfg
TraceRays(cfg) ==
    LET ps == IF cfg.volumeShading /\ cfg.renderMode \notin {"RenderMIP", "RenderTF2D"}
              THEN {0, 1} ELSE {0}
        qs == IF \/ cfg.renderMode = "RenderTF2D"
                 \/ /\ cfg.smoothstep /\ cfg.volumeShading
                    /\ cfg.renderMode \in {"RenderMIDA", "RenderCombined"}
              THEN 0..GradMax ELSE {0}
    IN  { MakeSamples(vals, p, q) : vals \in ValSeqs, p \in ps, q \in qs }

InitTrace ==
    /\ RendererIdle
    /\ ray = NoRay
    /\ hit = "none"
    /\ tf2d = NoTF2D
    /\ bisect = NoBisect
    /\ tfv = NoTFValue
    /\ \E mode \in TraceModes :
          \E cfg \in TraceConfigs(mode) :
             \E samples \in TraceRays(cfg) :
                tr = [mode    |-> mode,
                      cfg     |-> cfg,
                      samples |-> samples,
                      hist    |-> <<LoopInit>>,
                      done    |-> FALSE,
                      result  |-> Vec4Zero]

\* the loop state after the iterations done so far
Last(hist) == hist[Len(hist)]

\* the number of loop iterations done so far
Iterations(t) == Len(t.hist) - 1

\* one iteration of the tracer's sampling loop: t <= ray.tmax and no break yet
TraceSample ==
    /\ tr.mode # "none"
    /\ ~tr.done
    /\ Iterations(tr) < Len(tr.samples)
    /\ ~Last(tr.hist).brk
    /\ tr' = [tr EXCEPT !.hist =
                 Append(@, SampleStep(tr.mode, tr.cfg, Last(tr.hist),
                                      tr.samples[Iterations(tr) + 1]))]
    /\ UNCHANGED <<rendererVars, ray, hit, tf2d, bisect, tfv>>

\* the loop has ended and the tracer returns its colour
TraceReturn ==
    /\ tr.mode # "none"
    /\ ~tr.done
    /\ Iterations(tr) >= Len(tr.samples) \/ Last(tr.hist).brk
    /\ tr' = [tr EXCEPT !.done = TRUE,
                        !.result = TraceResult(tr.mode, tr.cfg, Last(tr.hist))]
    /\ UNCHANGED <<rendererVars, ray, hit, tf2d, bisect, tfv>>

NextTrace == TraceSample \/ TraceReturn

SpecTrace == InitTrace /\ [][NextTrace]_vars

(***************************************************************************)
(* Claims about the tracers, checked under SpecTrace                       *)
(***************************************************************************)
\* the accumulated opacity after k iterations of the loop
Acc(k) == tr.hist[k + 1].accumulatedOpacity

\* sample k exceeds the running maximum the loop holds when it reaches it
RaisesMax(k) == RLt(tr.hist[k].maxVal, tr.samples[k].val)

InUnit(a) == RLe(F(0), a) /\ RLe(a, F(1))

\* every entry of the lookup table has its opacity in [0, 1]
TFOpacitiesInUnit(cfg) == \A j \in DOMAIN cfg.tfColorMap : InUnit(cfg.tfColorMap[j][2][4])

MIDALike ==
    /\ tr.mode \in {"RenderMIDA", "RenderCombined"}
    /\ TFOpacitiesInUnit(tr.cfg)
    /\ RLe(F(-1), tr.cfg.gamma) /\ RLe(tr.cfg.gamma, F(1))

\* C5 as stated: in the MIDA and the Combined tracer the accumulated opacity
\* stays in [0, 1] and never decreases from one sample to the next.
C5_OpacityMonotone ==
    MIDALike =>
        \A k \in 1..Iterations(tr) : InUnit(Acc(k)) /\ RLe(Acc(k - 1), Acc(k))

\* C5 as amended: in the MIDA and the Combined tracer (gamma in [-1, 1]) the
\* accumulated opacity stays in [0, 1]; it does not decrease across a sample that
\* does not exceed the running maximum, nor across any sample when gamma = -1.
C5_OpacityInUnit ==
    MIDALike =>
        \A k \in 1..Iterations(tr) :
            /\ InUnit(Acc(k))
            /\ ~RaisesMax(k) => RLe(Acc(k - 1), Acc(k))
            /\ (tr.mode = "RenderCombined" /\ tr.cfg.gamma = F(-1))
                  => RLe(Acc(k - 1), Acc(k))

\* a MIDA loop in which a sample that raised the maximum lowered the opacity
C5_Witness ==
    /\ tr.mode = "RenderMIDA"
    /\ \E k \in 2..Iterations(tr) :
          /\ RaisesMax(k)
          /\ RLt(Acc(k), Acc(k - 1))
          /\ RLt(F(0), Acc(k))

\* C6: in the Composite and the 2D-transfer-function tracer the accumulated
\* opacity stays in [0, 1], never decreases, and the loop stops at the first
\* sample at which it reaches 1.
C6_CompositeOpacity ==
    tr.mode \in {"RenderComposite", "RenderTF2D"} =>
        \A k \in 1..Iterations(tr) :
            /\ InUnit(Acc(k))
            /\ RLe(Acc(k - 1), Acc(k))
            /\ RLe(F(1), Acc(k)) <=> tr.hist[k + 1].brk
            /\ k < Iterations(tr) => RLt(Acc(k), F(1))

\* a Composite loop left early, at its second sample or later, at opacity 1
C6_Witness ==
    /\ tr.mode = "RenderComposite"
    /\ tr.done
    /\ Iterations(tr) >= 2
    /\ Iterations(tr) < Len(tr.samples)
    /\ Acc(Iterations(tr)) = F(1)
    /\ RLt(F(0), Acc(1))

\* C7: the Combined tracer with gamma = 0 returns the colour the MIDA tracer
\* returns on the same ray, volume and config.
C7_CombinedAtZeroIsMIDA ==
    (tr.mode = "RenderCombined" /\ tr.done /\ tr.cfg.gamma = F(0))
        => tr.result = traceRay("RenderMIDA", tr.cfg, tr.samples)

\* a Combined trace at gamma = 0 has returned a colour that the fading shaped
C7_Witness ==
    /\ tr.mode = "RenderCombined"
    /\ tr.done
    /\ tr.cfg.gamma = F(0)
    /\ tr.cfg.volumeShading
    /\ \E k \in 2..Iterations(tr) : RaisesMax(k) /\ RLt(F(0), Acc(k - 1))
    /\ tr.result # traceRay("RenderComposite", tr.cfg, tr.samples)

\* the lookup table has a single non-zero entry, every sample of the ray maps
\* to it, its opacity is in (0, 1], and shading is off
SingleBinCase ==
    /\ tr.mode = "RenderComposite"
    /\ tr.done
    /\ ~tr.cfg.volumeShading
    /\ Len(tr.samples) >= 1
    /\ tr.cfg.tfColorMap = TFSingle(BinOfOne, tr.cfg.tfColorMap[2][2])
    /\ RLt(F(0), tr.cfg.tfColorMap[2][2][4])
    /\ RLe(tr.cfg.tfColorMap[2][2][4], F(1))
    /\ \A k \in DOMAIN tr.samples : getTFIndex(tr.cfg, tr.samples[k].val) = BinOfOne

\* (rgb * a, a)
Premultiplied(rgb, a) == Vec4(VScale(a, rgb), a)

RECURSIVE RPow(_, _)
RPow(a, n) == IF n = 0 THEN F(1) ELSE RMul(a, RPow(a, n - 1))

\* C8 as stated: composite tracing through samples that all map to the single
\* non-zero bin returns that bin's premultiplied colour (rgb * a, a), for every
\* number of samples.
C8_SingleBinPremultiplied ==
    SingleBinCase =>
        tr.result = Premultiplied(Rgb(tr.cfg.tfColorMap[2][2]), tr.cfg.tfColorMap[2][2][4])

\* C8 as amended: with shading off it returns (rgb * A, A) with
\* A = 1 - (1 - a)^n for n samples, which is (rgb * a, a) when n = 1 or a = 1.
C8_SingleBinComposited ==
    SingleBinCase =>
        LET a == tr.cfg.tfColorMap[2][2][4]
            A == RSub(F(1), RPow(RSub(F(1), a), Len(tr.samples)))
        IN  /\ tr.result = Premultiplied(Rgb(tr.cfg.tfColorMap[2][2]), A)
            /\ (Len(tr.samples) = 1 \/ a = F(1)) => A = a

\* a single-bin trace over three samples at bin opacity 1/2 has returned
C8_Witness ==
    /\ SingleBinCase
    /\ Len(tr.samples) = 3
    /\ tr.cfg.tfColorMap[2][2][4] = Rat(1, 2)
    /\ tr.result[4] = Rat(7, 8)

IsoUnshadedDone ==
    /\ tr.mode = "RenderIso"
    /\ tr.done
    /\ ~tr.cfg.volumeShading

SomeSampleExceedsIso ==
    \E k \in DOMAIN tr.samples : RLt(tr.cfg.isoValue, tr.samples[k].val)

CombinedAtMinusOne ==
    /\ tr.mode = "RenderCombined"
    /\ tr.done
    /\ tr.cfg.gamma = F(-1)
    /\ TFOpacitiesInUnit(tr.cfg)

\* the fade factor the Combined loop used at its sample k
BetaAt(k) ==
    LET delta == IF RaisesMax(k)
                 THEN RSub(RDiv(tr.samples[k].val, maximum),
                           RDiv(tr.hist[k].maxVal, maximum))
                 ELSE F(0)
    IN  CombinedBeta(tr.cfg.gamma, delta)

maxIterations == 30

\* float precision = 0.01f
precision == Rat(1, 100)

\* the widest search interval is [0, 2^MaxSpan]
MaxSpan == 23

RECURSIVE Pow2(_)
Pow2(n) == IF n = 0 THEN 1 ELSE 2 * Pow2(n - 1)

\* c = (a + b) / 2.0f
Midpoint(a, b) == RDiv(RAdd(a, b), F(2))

\* a break test that looks at the midpoint value only
BisectBreak_ValueOnly(fc, isoValue, a, b) == RLt(RAbs(RSub(fc, isoValue)), precision)

\* std::abs(fc - isoValue) < precision || std::abs(b - a) < precision
BisectBreak(fc, isoValue, a, b) ==
    \/ RLt(RAbs(RSub(fc, isoValue)), precision)
    \/ RLt(RAbs(RSub(b, a)), precision)

\* rays along the x axis that start in the volume, just before it or far before it
BisectRays ==
    { [origin |-> <<ox, oy, oz>>, direction |-> <<1, 0, 0>>, tmin |-> F(0), tmax |-> F(0)]
        : ox \in {-Pow2(MaxSpan - 1), -1, 0}, oy \in {0, 1}, oz \in {0, 1} }

\* <<t0, t1>>
BisectIntervals ==
    { <<F(0), F(0)>>, <<F(0), F(1)>>, <<F(1), F(2)>>, <<F(0), F(2)>>,
      <<F(0), F(Pow2(MaxSpan))>>, <<F(1), F(0)>> }

BisectIsoValues == { Rat(k, 2) : k \in 0..(2 * VolumeMax) }

\* bisectionAccuracy(ray, t0, t1, isoValue) has been entered: a = t0, b = t1;
\* c and fc are assigned before they are read
InitBisect ==
    /\ RendererIdle
    /\ ray = NoRay
    /\ hit = "none"
    /\ tr = NoTrace
    /\ tf2d = NoTF2D
    /\ tfv = NoTFValue
    /\ \E r \in BisectRays, iv \in BisectIntervals, iso \in BisectIsoValues :
          bisect = [call      |-> "running",
                    ray       |-> r,
                    t0        |-> iv[1],
                    t1        |-> iv[2],
                    isoValue  |-> iso,
                    a         |-> iv[1],
                    b         |-> iv[2],
                    c         |-> F(0),
                    fc        |-> F(0),
                    iteration |-> 0,
                    samples   |-> 0,
                    brk       |-> FALSE,
                    result    |-> F(0)]

\* one pass of the loop body: sample the midpoint, then break or narrow
BisectSample ==
    /\ bisect.call = "running"
    /\ ~bisect.brk
    /\ bisect.iteration < maxIterations
    /\ \E c \in {Midpoint(bisect.a, bisect.b)} :
          \E fc \in {getSampleInterpolate(RayAt(bisect.ray, c))} :
             bisect' =
               IF BisectBreak(fc, bisect.isoValue, bisect.a, bisect.b)
               THEN [bisect EXCEPT !.c = c, !.fc = fc, !.samples = @ + 1, !.brk = TRUE]
               ELSE IF RLt(fc, bisect.isoValue)
               THEN [bisect EXCEPT !.c = c, !.fc = fc, !.samples = @ + 1,
                                   !.a = c, !.iteration = @ + 1]
               ELSE [bisect EXCEPT !.c = c, !.fc = fc, !.samples = @ + 1,
                                   !.b = c, !.iteration = @ + 1]
    /\ UNCHANGED <<rendererVars, ray, hit, tr, tf2d, tfv>>

\* return c
BisectReturn ==
    /\ bisect.call = "running"
    /\ bisect.brk \/ bisect.iteration >= maxIterations
    /\ bisect' = [bisect EXCEPT !.call = "returned", !.result = bisect.c]
    /\ UNCHANGED <<rendererVars, ray, hit, tr, tf2d, tfv>>

NextBisect == BisectSample \/ BisectReturn

SpecBisect == InitBisect /\ [][NextBisect]_vars

\* C13: bisectionAccuracy takes at most 30 midpoint samples: every pass of its
\* loop either breaks, after which it only returns, or counts one iteration up
\* towards 30.  With t0 <= t1 the intervals [a, b] are nested in [t0, t1] and the
\* returned parameter is the last midpoint, in [t0, t1].  It leaves the loop
\* before the 30th sample only by the break, which is taken exactly when the
\* midpoint value is within 0.01 of isoValue or the interval is shorter than 0.01.
C13_BisectionBoundedAndNested ==
    /\ [](/\ bisect.samples <= maxIterations
          /\ bisect.iteration <= bisect.samples
          /\ (RLe(bisect.t0, bisect.t1) /\ bisect.samples >= 1) =>
                /\ RLe(bisect.t0, bisect.a)
                /\ RLe(bisect.a, bisect.c)
                /\ RLe(bisect.c, bisect.b)
                /\ RLe(bisect.b, bisect.t1)
          /\ bisect.call = "returned" =>
                /\ bisect.samples >= 1
                /\ bisect.result = bisect.c
                /\ bisect.samples < maxIterations => bisect.brk)
    /\ [][/\ \/ bisect'.call = "returned"
             \/ bisect'.samples = bisect.samples + 1
          /\ bisect'.samples = bisect.samples + 1 =>
                /\ bisect'.brk \/ bisect'.iteration = bisect.iteration + 1
                /\ RLe(bisect.t0, bisect.t1) =>
                      RLe(bisect.a, bisect'.a) /\ RLe(bisect'.b, bisect.b)
                /\ bisect'.brk <=>
                      \/ RLt(RAbs(RSub(bisect'.fc, bisect.isoValue)), Rat(1, 100))
                      \/ RLt(RAbs(RSub(bisect.b, bisect.a)), Rat(1, 100))]_vars

\* a call over a wide interval has returned after 30 samples without a break,
\* having narrowed the interval from both sides
C13_Witness ==
    /\ bisect.call = "returned"
    /\ bisect.samples = maxIterations
    /\ ~bisect.brk
    /\ RLt(bisect.t0, bisect.a)
    /\ RLt(bisect.b, bisect.t1)

(***************************************************************************)
(* getTFValue on its own: SpecTFValue                                      *)
(***************************************************************************)
\* the indices getTFValue can read for any val
getTFIndexOutcomes(cfg, val) ==
    LET range01 == RDiv(RSub(val, cfg.tfColorMapIndexStart), cfg.tfColorMapIndexRange)
    IN  { IF TFSize - 1 < i THEN TFSize - 1 ELSE i
            : i \in SizeTOutcomes(RMul(range01, F(TFSize))) }

\* values on the grid from below the domain to above it, and values within a
\* few table entries of 0
TFValues ==
    { Rat(k, GridDen) : k \in (-2 * GridDen)..((VolumeMax + 2) * GridDen) }
        \cup { Rat(k, 2 * TFSize) : k \in (-3)..3 }

TFDomains == { <<F(s), F(r)>> : s \in {0, 1}, r \in {1, VolumeMax} }

InitTFValue ==
    /\ RendererIdle
    /\ ray = NoRay
    /\ hit = "none"
    /\ tr = NoTrace
    /\ tf2d = NoTF2D
    /\ bisect = NoBisect
    /\ \E tf \in TraceTFs, d \in TFDomains, val \in TFValues :
          tfv = [call   |-> "pending",
                 cfg    |-> [tfColorMap |-> tf,
                             tfColorMapIndexStart |-> d[1],
                             tfColorMapIndexRange |-> d[2]],
                 val    |-> val,
                 index  |-> 0,
                 result |-> Vec4Zero]

\* the call getTFValue(val)
CallTFValue ==
    /\ tfv.call = "pending"
    /\ \E i \in getTFIndexOutcomes(tfv.cfg, tfv.val) :
          tfv' = [tfv EXCEPT !.call = "returned", !.index = i,
                             !.result = TFEntry(tfv.cfg.tfColorMap, i)]
    /\ UNCHANGED <<rendererVars, ray, hit, tr, tf2d, bisect>>

NextTFValue == CallTFValue

SpecTFValue == InitTFValue /\ [][NextTFValue]_vars

\* clamp(floor((val - start) / range * 256), 0, 255)
ClampedFloorIndex(cfg, val) ==
    LET range01 == RDiv(RSub(val, cfg.tfColorMapIndexStart), cfg.tfColorMapIndexRange)
        i == RFloor(RMul(range01, F(TFSize)))
    IN  IF i < 0 THEN 0 ELSE IF i > TFSize - 1 THEN TFSize - 1 ELSE i

\* C14: getTFValue returns the entry at clamp(floor((val - start) / range * 256),
\* 0, 255): a val below start reads entry 0, a val at or above start + range
\* reads entry 255, and the index is never outside [0, 255].
C14_IndexIsClampedFloor ==
    tfv.call = "returned" =>
        /\ tfv.index \in 0..(TFSize - 1)
        /\ tfv.index = ClampedFloorIndex(tfv.cfg, tfv.val)
        /\ tfv.result = TFEntry(tfv.cfg.tfColorMap, ClampedFloorIndex(tfv.cfg, tfv.val))
        /\ RLt(tfv.val, tfv.cfg.tfColorMapIndexStart) => tfv.index = 0
        /\ RLe(RAdd(tfv.cfg.tfColorMapIndexStart, tfv.cfg.tfColorMapIndexRange), tfv.val)
              => tfv.index = TFSize - 1

\* what holds of every outcome: the index is in [0, 255], and it is the clamped
\* floor whenever (val - start) / range * 256 > -1
TFValue_IndexInTable ==
    tfv.call = "returned" =>
        /\ tfv.index \in 0..(TFSize - 1)
        /\ RLt(RSub(tfv.cfg.tfColorMapIndexStart,
                    RDiv(tfv.cfg.tfColorMapIndexRange, F(TFSize))), tfv.val)
              => tfv.index = ClampedFloorIndex(tfv.cfg, tfv.val)

====
